---- MODULE Spec2Model ----
(***************************************************************************)
(* Model of the optimization core of the logistics toolkit:                *)
(*   LogisticsOptimizer.optimize_routes / optimize_inventory /             *)
(*     optimize_delivery_schedule                                          *)
(*     (logistics_optimization/src/optimization/optimizer.py)              *)
(*   RouteOptimizer.optimize / calculate_distances / _extract_routes       *)
(*     (logistics_optimization/src/optimization/route_optimizer.py)        *)
(* The MILP solver (PuLP/CBC) is external: it is modelled as a             *)
(* nondeterministic choice among the outcomes a correct solver can give    *)
(* for the constraints the code builds.  Distances and demands are         *)
(* non-negative integers (the code uses floats; only sums and comparisons  *)
(* of them are modelled).                                                  *)
(***************************************************************************)
EXTENDS Integers, Sequences, FiniteSets, TLC

VARIABLES
  pc,             \* "idle", "called" (arguments chosen), "done" (call finished)
  input,          \* the engine called and its arguments
  sol,            \* what prob.solve() gave: [status, assigned, x]
  trace,          \* inside the call: [built, exc]: was the LpProblem
                  \* constructed, and the exception raised in the try block
  out,            \* what the caller observes
  last_solution,  \* RouteOptimizer.last_solution
  memo,           \* an earlier optimize_inventory call on the same
                  \* LogisticsOptimizer instance: [is_none, input, out]
  again,          \* what a second run of the extraction gives
  calls,          \* two RouteOptimizer.optimize calls running concurrently on
                  \* one instance: per call [pc, locations, sol, routes, out]
  writes          \* the concurrent calls that assigned last_solution, in order

vars == <<pc, input, sol, trace, out, last_solution, memo, again, calls, writes>>

(* ---------------- bounds of the explored inputs ---------------- *)
MaxLocations == 3
MaxVehicles == 2
(* The solver is given at most this many binary variables (n * n * K). *)
MaxArcVariables == 18
MaxTasks == 2
MaxResources == 2
MaxWindows == 2
MaxSessionLocations == 2
MaxExtractLocations == 3
DistLevels == {100, 300}
DemandLevels == {300, 700}

(* ---------------- program constants (config.py) ---------------- *)
max_distance == 500
vehicle_capacity == 1000

(* ---------------- helpers ---------------- *)
Nodes(n) == 0 .. (n - 1)
Vehicles(K) == 0 .. (K - 1)
Arcs(n, K) == Nodes(n) \X Nodes(n) \X Vehicles(K)

Min(S) == CHOOSE m \in S : \A s \in S : m <= s

RECURSIVE lpSum(_, _)
lpSum(f, S) ==
  IF S = {} THEN 0
  ELSE LET e == CHOOSE z \in S : TRUE IN f[e] + lpSum(f, S \ {e})

(* Number of selected variables among the arcs of S: lpSum of 0/1 values. *)
Count(x, S) == Cardinality({a \in S : x[a] = 1})

(* ======================================================================= *)
(* LogisticsOptimizer.optimize_routes: the formulation                      *)
(* An input is [engine, n_locations, distances, demands, num_vehicles];     *)
(* x maps every (i, j, k) to the value of the binary variable x[i,j,k].     *)
(* ======================================================================= *)

(* "Each location must be visited exactly once" *)
VisitOnce(x, n, K) ==
  \A j \in 1 .. (n - 1) :
    Count(x, {<<i, j, k>> : i \in Nodes(n) \ {j}, k \in Vehicles(K)}) = 1

(* "Start at depot" *)
DepotStart(x, n, K) ==
  \A k \in Vehicles(K) : Count(x, {<<0, j, k>> : j \in 1 .. (n - 1)}) <= 1

(* "End at depot" *)
DepotEnd(x, n, K) ==
  \A k \in Vehicles(K) : Count(x, {<<i, 0, k>> : i \in 1 .. (n - 1)}) <= 1

(* "Flow conservation" *)
FlowConservation(x, n, K) ==
  \A k \in Vehicles(K) : \A j \in Nodes(n) :
    Count(x, {<<i, j, k>> : i \in Nodes(n) \ {j}})
      = Count(x, {<<j, i, k>> : i \in Nodes(n) \ {j}})

(* Left-hand side of the capacity constraint of vehicle k: every i, the     *)
(* diagonal included, and every j >= 1.                                     *)
CapacityLoad(x, n, demands, k) ==
  LET S == {<<i, j, k>> : i \in Nodes(n), j \in 1 .. (n - 1)}
  IN  lpSum([a \in S |-> demands[a[2]] * x[a]], S)

(* Mutant of CapacityConstraint: only the arcs that leave the depot are     *)
(* weighed (for i in range(1) instead of range(n_locations)).               *)
CapacityConstraintDepotArcsOnly(x, n, K, demands) ==
  \A k \in Vehicles(K) :
    LET S == {<<0, j, k>> : j \in 1 .. (n - 1)}
    IN  lpSum([a \in S |-> demands[a[2]] * x[a]], S) <= vehicle_capacity

CapacityConstraint(x, n, K, demands) ==
  \A k \in Vehicles(K) : CapacityLoad(x, n, demands, k) <= vehicle_capacity

(* Left-hand side of the distance constraint of vehicle k. *)
VehicleDistance(x, n, distances, k) ==
  LET S == {<<i, j, k>> : i \in Nodes(n), j \in Nodes(n)}
  IN  lpSum([a \in S |-> distances[a[1]][a[2]] * x[a]], S)

DistanceConstraint(x, n, K, distances) ==
  \A k \in Vehicles(K) : VehicleDistance(x, n, distances, k) <= max_distance

(* The objective: total distance over all vehicles. *)
Objective(x, inp) ==
  LET S == Arcs(inp.n_locations, inp.num_vehicles)
  IN  lpSum([a \in S |-> inp.distances[a[1]][a[2]] * x[a]], S)

(* x satisfies every constraint optimize_routes adds to the problem. *)
Feasible(x, inp) ==
  /\ VisitOnce(x, inp.n_locations, inp.num_vehicles)
  /\ DepotStart(x, inp.n_locations, inp.num_vehicles)
  /\ DepotEnd(x, inp.n_locations, inp.num_vehicles)
  /\ FlowConservation(x, inp.n_locations, inp.num_vehicles)
  /\ CapacityConstraint(x, inp.n_locations, inp.num_vehicles, inp.demands)
  /\ DistanceConstraint(x, inp.n_locations, inp.num_vehicles, inp.distances)

(* ----------------------------------------------------------------------- *)
(* The external solver.  Every 0/1 assignment that satisfies VisitOnce and  *)
(* DepotEnd has one selected arc into each non-depot node, at most one      *)
(* selected arc into the depot per vehicle, and any diagonal; the solver's  *)
(* search space is enumerated in that shape and then filtered by Feasible,  *)
(* which gives exactly the feasible 0/1 assignments.                        *)
(* ----------------------------------------------------------------------- *)
ShapedAssignments(n, K) ==
  LET Into == [1 .. (n - 1) -> Nodes(n) \X Vehicles(K)]
      Back == [Vehicles(K) -> Nodes(n) \cup {0}]
      Diag == SUBSET (Nodes(n) \X Vehicles(K))
  IN  { [a \in Arcs(n, K) |->
           IF a[1] = a[2] THEN (IF <<a[1], a[3]>> \in dg THEN 1 ELSE 0)
           ELSE IF a[2] = 0 THEN (IF bk[a[3]] = a[1] THEN 1 ELSE 0)
           ELSE IF into[a[2]] = <<a[1], a[3]>> THEN 1 ELSE 0]
        : into \in {f \in Into : \A j \in 1 .. (n - 1) : f[j][1] # j},
          bk \in Back, dg \in Diag }

FeasibleSet(inp) ==
  {x \in ShapedAssignments(inp.n_locations, inp.num_vehicles) : Feasible(x, inp)}

(* Values an infeasible solve leaves behind: 0/1 values that satisfy no      *)
(* particular constraint.  Extraction reads, for each node and vehicle,     *)
(* only the first selected arc that leaves the node and never the           *)
(* diagonal, so the assignments explored are those with at most one         *)
(* selected arc out of each node per vehicle and a diagonal of 0.           *)
LeftBehind(n, K) ==
  { [a \in Arcs(n, K) |-> IF a[1] # a[2] /\ succ[<<a[1], a[3]>>] = a[2] THEN 1 ELSE 0]
    : succ \in [Nodes(n) \X Vehicles(K) -> Nodes(n)] }

NoValues(n, K) == [a \in Arcs(n, K) |-> 0]

(* Outcomes of prob.solve(): [status, assigned, x].  assigned = FALSE means *)
(* the variables hold no value (value() is None).                           *)
SolveRoutes(inp) ==
  LET F == FeasibleSet(inp)
      best == Min({Objective(x, inp) : x \in F})
  IN  IF F # {}
      THEN { [status |-> IF Objective(x, inp) = best THEN "Optimal" ELSE "Not Solved",
              assigned |-> TRUE, x |-> x, eps |-> {}] : x \in F }
      ELSE { [status |-> "Infeasible", assigned |-> FALSE,
              x |-> NoValues(inp.n_locations, inp.num_vehicles), eps |-> {}] }
           \cup
           { [status |-> "Infeasible", assigned |-> TRUE, x |-> x, eps |-> {}]
               : x \in LeftBehind(inp.n_locations, inp.num_vehicles) }

(* ----------------------------------------------------------------------- *)
(* optimize_routes: extraction                                              *)
(* ----------------------------------------------------------------------- *)
Range(seq) == {seq[i] : i \in 1 .. Len(seq)}

(* What .value() gives for variable a, in thousandths: the solver's 0 or 1, *)
(* off by its integrality tolerance for the variables in eps.               *)
value(s, a) ==
  IF a \in s.eps THEN (IF s.x[a] = 1 THEN 999 ELSE 1) ELSE 1000 * s.x[a]

(* x[i,j,k].value() == 1 *)
Selected(s, i, j, k) == s.assigned /\ value(s, <<i, j, k>>) = 1000

(* The while-loop without its `next_stop == 0` exit. *)
RECURSIVE WalkThroughDepot(_, _, _, _, _, _)
WalkThroughDepot(s, inp, k, route0, current, dist) ==
  LET route == Append(route0, current)
      C == {j \in Nodes(inp.n_locations) : j # current /\ Selected(s, current, j, k)}
  IN  IF C = {} THEN [route |-> route, dist |-> dist, diverges |-> FALSE]
      ELSE IF Min(C) \in Range(route)
      THEN [route |-> route, dist |-> dist + inp.distances[current][Min(C)],
            diverges |-> TRUE]
      ELSE WalkThroughDepot(s, inp, k, route, Min(C),
                            dist + inp.distances[current][Min(C)])

(* The while-loop of vehicle k, from the iteration that appends current.    *)
(* The walk is a function of current alone, so reaching a stop that is      *)
(* already in the route repeats for ever: diverges = TRUE.                  *)
RECURSIVE WalkFrom(_, _, _, _, _, _)
WalkFrom(s, inp, k, route0, current, dist) ==
  LET route == Append(route0, current)
      C == {j \in Nodes(inp.n_locations) : j # current /\ Selected(s, current, j, k)}
  IN  IF C = {} THEN [route |-> route, dist |-> dist, diverges |-> FALSE]
      ELSE LET next_stop == Min(C)
               d == dist + inp.distances[current][next_stop]
           IN  IF next_stop = 0
               THEN [route |-> route, dist |-> d, diverges |-> FALSE]
               ELSE IF next_stop \in Range(route)
               THEN [route |-> route, dist |-> d, diverges |-> TRUE]
               ELSE WalkFrom(s, inp, k, route, next_stop, d)

(* The route list of vehicle k as the loop leaves it. *)
VehicleWalk(s, inp, k) == WalkFrom(s, inp, k, <<>>, 0, 0)

(* "Only include non-empty routes" *)
KeepRoute(route) == Len(route) > 2

(* The for-loop over the vehicles k .. num_vehicles - 1. *)
RECURSIVE ExtractFrom(_, _, _, _, _)
ExtractFrom(s, inp, k, routes, total_distance) ==
  IF k = inp.num_vehicles
  THEN [routes |-> routes, total_distance |-> total_distance, diverges |-> FALSE]
  ELSE LET w == VehicleWalk(s, inp, k)
       IN  IF w.diverges
           THEN [routes |-> routes, total_distance |-> total_distance + w.dist,
                 diverges |-> TRUE]
           ELSE ExtractFrom(s, inp, k + 1,
                            IF KeepRoute(w.route) THEN Append(routes, w.route) ELSE routes,
                            total_distance + w.dist)

ExtractRoutes(s, inp) == ExtractFrom(s, inp, 0, <<>>, 0)

(* ----------------------------------------------------------------------- *)
(* optimize_routes: the whole call.  Outcomes are [sol, out] with           *)
(*   out.kind = "returned": the result dictionary,                          *)
(*   out.kind = "raised":   the exception that leaves the call,             *)
(*   out.kind = "diverged": the extraction loop never ends.                 *)
(* ----------------------------------------------------------------------- *)
NoSol == [status |-> "none", assigned |-> FALSE, x |-> <<>>, eps |-> {}]
NoOut == [kind |-> "none"]
NoInput == [engine |-> "none"]
NoTrace == [built |-> FALSE, exc |-> "none"]
(* self.last_solution = None *)
NoLastSolution == [is_none |-> TRUE, routes |-> <<>>]
NoMemo == [is_none |-> TRUE]
NoAgain == [kind |-> "none"]
NoCall == [pc |-> "idle", locations |-> <<>>, sol |-> NoSol, routes |-> <<>>, out |-> NoOut]
NoCalls == [t \in {1, 2} |-> NoCall]

(* demands[j] is read for every j in 1 .. n-1 while the capacity constraint *)
(* of the first vehicle is built.                                           *)
DemandsTooShort(inp) ==
  /\ inp.n_locations >= 2
  /\ inp.num_vehicles >= 1
  /\ ~ (Nodes(inp.n_locations) \subseteq DOMAIN inp.demands)

(* except Exception as e: logger.error(...); raise *)
RoutesExcept(exc) == [kind |-> "raised", exc |-> exc]

RoutesReturn(s, inp, e) ==
  [kind |-> "returned", routes |-> e.routes, total_distance |-> e.total_distance,
   status |-> s.status,
   objective_value |-> IF s.assigned THEN Objective(s.x, inp) ELSE 0]

(* prob is constructed first (line 43), before any argument is looked at.   *)
RoutesOutcomes(inp, solved) ==
  IF DemandsTooShort(inp)
  THEN { [sol |-> NoSol, trace |-> [built |-> TRUE, exc |-> "IndexError"],
          out |-> RoutesExcept("IndexError")] }
  ELSE { [sol |-> NoSol, trace |-> [built |-> TRUE, exc |-> "PulpSolverError"],
          out |-> RoutesExcept("PulpSolverError")] }
       \cup
       { [sol |-> s, trace |-> [built |-> TRUE, exc |-> "none"],
          out |-> LET e == ExtractRoutes(s, inp)
                  IN  IF e.diverges THEN [kind |-> "diverged"]
                      ELSE RoutesReturn(s, inp, e)]
         : s \in solved }

(* The solver's values as the call reads them: exact, or with the variables *)
(* of eps off by the integrality tolerance (0.999 for 1, 0.001 for 0).      *)
WithinTolerance(solved) ==
  solved \cup UNION { { [s EXCEPT !.eps = e]
                          : e \in {DOMAIN s.x} \cup {{a} : a \in DOMAIN s.x} }
                        : s \in {t \in solved : t.assigned /\ t.status = "Optimal"} }

OptimizeRoutes(inp) == RoutesOutcomes(inp, SolveRoutes(inp))

(* ----------------------------------------------------------------------- *)
(* Inputs of optimize_routes                                                *)
(* ----------------------------------------------------------------------- *)
Pairs(n) == {{i, j} : i \in Nodes(n), j \in Nodes(n)} \ {{i} : i \in Nodes(n)}

SymmetricMatrices(n) ==
  { [i \in Nodes(n) |-> [j \in Nodes(n) |-> IF i = j THEN 0 ELSE e[{i, j}]]]
    : e \in [Pairs(n) -> DistLevels] }

DemandArrays(n) ==
  { [j \in Nodes(n) |-> IF j = 0 THEN 0 ELSE d[j]] : d \in [1 .. (n - 1) -> DemandLevels] }

(* The depot and (1,0), (0,1), (1,1): distances in hundredths. *)
SquareDistances ==
  [i \in Nodes(4) |-> [j \in Nodes(4) |->
     IF i = j THEN 0 ELSE IF {i, j} \in {{0, 3}, {1, 2}} THEN 141 ELSE 100]]

SquareScenario ==
  [engine |-> "optimize_routes", n_locations |-> 4, num_vehicles |-> 1,
   distances |-> SquareDistances, demands |-> [j \in Nodes(4) |-> IF j = 0 THEN 0 ELSE 100]]

RouteInputs ==
  { [engine |-> "optimize_routes", n_locations |-> n, num_vehicles |-> K,
     distances |-> D, demands |-> dem]
    : n \in 0 .. MaxLocations, K \in 1 .. MaxVehicles,
      D \in UNION {SymmetricMatrices(m) : m \in 0 .. MaxLocations},
      dem \in UNION {DemandArrays(m) : m \in 0 .. MaxLocations} }

WellShaped(inp) ==
  /\ inp.n_locations * inp.n_locations * inp.num_vehicles <= MaxArcVariables
  /\ DOMAIN inp.distances = Nodes(inp.n_locations)
  /\ \/ DOMAIN inp.demands = Nodes(inp.n_locations)
     \/ inp.n_locations >= 2 /\ DOMAIN inp.demands = Nodes(inp.n_locations - 1)

(* ======================================================================= *)
(* RouteOptimizer (route_optimizer.py)                                      *)
(* An input is [engine, locations]; a location is [x, y], or a dictionary   *)
(* without coordinates.  x maps every (i, j) to the value of x[i, j].       *)
(* ======================================================================= *)

(* np.sqrt on the perfect squares the explored coordinates give. *)
Sqrt(v) == CHOOSE r \in 0 .. v : r * r = v

(* The matrix with only distances[i][j], i < j, filled. *)
calculate_distances_upper(locations) ==
  LET n == Len(locations)
  IN  [i \in Nodes(n) |-> [j \in Nodes(n) |->
         IF i < j
         THEN Sqrt((locations[i + 1].x - locations[j + 1].x)
                     * (locations[i + 1].x - locations[j + 1].x)
                   + (locations[i + 1].y - locations[j + 1].y)
                     * (locations[i + 1].y - locations[j + 1].y))
         ELSE 0]]

(* calculate_distances: zeros, then both halves filled from i < j. *)
calculate_distances(locations) ==
  LET n == Len(locations)
      dist(i, j) == Sqrt((locations[i + 1].x - locations[j + 1].x)
                           * (locations[i + 1].x - locations[j + 1].x)
                         + (locations[i + 1].y - locations[j + 1].y)
                           * (locations[i + 1].y - locations[j + 1].y))
  IN  [i \in Nodes(n) |-> [j \in Nodes(n) |->
         IF i < j THEN dist(i, j) ELSE IF j < i THEN dist(j, i) ELSE 0]]

(* locations[i]['x'] raises KeyError; every location is read once n >= 2.   *)
MissingCoordinates(locations) ==
  /\ Len(locations) >= 2
  /\ \E i \in 1 .. Len(locations) : ~ ({"x", "y"} \subseteq DOMAIN locations[i])

PlanarArcs(n) == Nodes(n) \X Nodes(n)

(* "Each location must be visited exactly once" *)
EnteredOnce(x, n) ==
  \A j \in 1 .. (n - 1) : Count(x, {<<i, j>> : i \in Nodes(n) \ {j}}) = 1

(* "Each location must be left exactly once" *)
LeftOnce(x, n) ==
  \A i \in 1 .. (n - 1) : Count(x, {<<i, j>> : j \in Nodes(n) \ {i}}) = 1

(* "Flow conservation" *)
PlanarFlow(x, n) ==
  \A k \in 1 .. (n - 1) :
    Count(x, {<<i, k>> : i \in Nodes(n) \ {k}}) = Count(x, {<<k, j>> : j \in Nodes(n) \ {k}})

PlanarFeasible(x, n) == EnteredOnce(x, n) /\ LeftOnce(x, n) /\ PlanarFlow(x, n)

PlanarObjective(x, n, distances) ==
  LET S == PlanarArcs(n)
  IN  lpSum([a \in S |-> distances[a[1]][a[2]] * x[a]], S)

(* The solver's search space.  EnteredOnce fixes one selected arc into each *)
(* non-depot node; the arcs into the depot and the diagonal are free.       *)
PlanarShaped(n) ==
  LET Into == {f \in [1 .. (n - 1) -> Nodes(n)] : \A j \in 1 .. (n - 1) : f[j] # j}
      Free == SUBSET ({<<i, 0>> : i \in 1 .. (n - 1)} \cup {<<i, i>> : i \in Nodes(n)})
  IN  { [a \in PlanarArcs(n) |->
           IF a[1] = a[2] \/ a[2] = 0 THEN (IF a \in fr THEN 1 ELSE 0)
           ELSE IF into[a[2]] = a[1] THEN 1 ELSE 0]
        : into \in Into, fr \in Free }

(* LpStatus values other than Optimal. *)
NonOptimalStatuses == {"Not Solved", "Infeasible", "Unbounded", "Undefined"}

(* Outcomes of prob.solve() (no time limit): an optimal assignment, or a    *)
(* status other than Optimal with the variables left without value.         *)
SolvePlanar(n, distances) ==
  LET F == {x \in PlanarShaped(n) : PlanarFeasible(x, n)}
      best == Min({PlanarObjective(x, n, distances) : x \in F})
  IN  { [status |-> "Optimal", assigned |-> TRUE, x |-> x, eps |-> {}]
          : x \in {y \in F : PlanarObjective(y, n, distances) = best} }
      \cup
      { [status |-> st, assigned |-> FALSE, x |-> [a \in PlanarArcs(n) |-> 0],
         eps |-> {}]
          : st \in NonOptimalStatuses }

(* A test that takes every arc as selected. *)
PlanarSelectedAlways(x, i, j) == TRUE

(* value(x[current, j]) > 0.5 *)
PlanarSelected(x, i, j) == 2 * x[<<i, j>>] > 1

(* self has no attribute 'distances' (optimize keeps them in a local), so   *)
(* _calculate_route_distance returns 0.0.                                   *)
InstanceAttributes == {"solver", "last_solution"}

calculate_route_distance(route, self_distances) ==
  IF "distances" \notin InstanceAttributes THEN 0
  ELSE LET I == 1 .. (Len(route) - 1)
       IN  lpSum([i \in I |-> self_distances[route[i]][route[i + 1]]], I)

RouteRecord(route) ==
  [route |-> route, distance |-> calculate_route_distance(route, <<>>)]

(* The while-loop of _extract_routes from one loop head.  When the route    *)
(* restarted at the depot finds no arc to an unvisited location, the next   *)
(* iteration is in the same state: the loop never ends.                     *)
RECURSIVE ExtractLoop(_, _, _, _, _, _)
ExtractLoop(x, n, routes, unvisited, current_route0, current0) ==
  IF unvisited = {}
  THEN [routes |-> IF Len(current_route0) > 1
                   THEN Append(routes, RouteRecord(current_route0)) ELSE routes,
        diverges |-> FALSE]
  ELSE LET current == IF current_route0 = <<>> THEN 0 ELSE current0
           current_route == IF current_route0 = <<>> THEN <<0>> ELSE current_route0
           C == {j \in Nodes(n) : j \in unvisited /\ PlanarSelected(x, current, j)}
       IN  IF C = {}
           THEN IF Len(current_route) > 1
                THEN ExtractLoop(x, n, Append(routes, RouteRecord(current_route)),
                                 unvisited, <<>>, current)
                ELSE [routes |-> routes, diverges |-> TRUE]
           ELSE ExtractLoop(x, n, routes, unvisited \ {Min(C)},
                            Append(current_route, Min(C)), Min(C))

extract_routes(x, n_locations) ==
  ExtractLoop(x, n_locations, <<>>, 1 .. (n_locations - 1), <<>>, 0)

(* calculate_total_distance: sum(route["distance"] for route in routes) *)
calculate_total_distance(routes) ==
  LET I == 1 .. Len(routes)
  IN  lpSum([r \in I |-> routes[r].distance], I)

(* calculate_cost *)
calculate_cost(routes, cost_per_km) == calculate_total_distance(routes) * cost_per_km

(* An extraction that resets the variables it has read. *)
values_consumed(x) == [a \in DOMAIN x |-> 0]

(* The variable values once an extraction has run: both extraction loops    *)
(* only read them (value(x[current, j]), x[current,j,k].value()).           *)
values_after_extraction(x) == x

(* An assignment that keeps a solution stored earlier. *)
KeepFirstSolution(last, routes) ==
  IF last.is_none THEN [is_none |-> FALSE, routes |-> routes] ELSE last

(* self.last_solution = routes *)
AssignLastSolution(last, routes) == [is_none |-> FALSE, routes |-> routes]

(* An except branch that also forgets the stored solution. *)
OptimizeExceptClearing(built, exc, last) ==
  [sol |-> NoSol, trace |-> [built |-> built, exc |-> exc],
   out |-> [kind |-> "returned", routes |-> <<>>], last_solution |-> NoLastSolution]

(* except Exception as e: logger.error(...); return [] *)
OptimizeExcept(built, exc, last) ==
  [sol |-> NoSol, trace |-> [built |-> built, exc |-> exc],
   out |-> [kind |-> "returned", routes |-> <<>>], last_solution |-> last]

(* RouteOptimizer.optimize: outcomes [sol, trace, out, last_solution]. *)
Optimize(inp, last) ==
  IF inp.locations = <<>> THEN { OptimizeExcept(FALSE, "ValueError", last) }
  ELSE IF MissingCoordinates(inp.locations) THEN { OptimizeExcept(FALSE, "KeyError", last) }
  ELSE LET n == Len(inp.locations)
           distances == calculate_distances(inp.locations)
       IN  { OptimizeExcept(TRUE, "PulpSolverError", last) }
           \cup
           { IF s.status # "Optimal"
             THEN [OptimizeExcept(TRUE, "Exception", last) EXCEPT !.sol = s]
             ELSE LET e == extract_routes(s.x, n)
                  IN  IF e.diverges
                      THEN [sol |-> s, trace |-> [built |-> TRUE, exc |-> "none"],
                            out |-> [kind |-> "diverged"], last_solution |-> last]
                      ELSE [sol |-> s, trace |-> [built |-> TRUE, exc |-> "none"],
                            out |-> [kind |-> "returned", routes |-> e.routes],
                            last_solution |-> AssignLastSolution(last, e.routes)]
             : s \in SolvePlanar(n, distances) }

(* Inputs of RouteOptimizer.optimize *)
XLevels == {0, 3}
YLevels == {0, 4}
Points == {[x |-> a, y |-> b] : a \in XLevels, b \in YLevels}
NoCoordinates == [id |-> "unknown"]

OptimizeInputs ==
  { [engine |-> "optimize", locations |-> locs]
    : locs \in UNION {[1 .. m -> Points \cup {NoCoordinates}] : m \in 0 .. MaxLocations} }

(* ======================================================================= *)
(* LogisticsOptimizer.optimize_delivery_schedule                            *)
(* An input is [engine, tasks, resources, time_windows]; x maps every       *)
(* (i, j, t) to the value of x[i,j,t] (task, resource, slot; 0-based).      *)
(* ======================================================================= *)
Indices(n) == 0 .. (n - 1)

(* max(tw[1] for tw in time_windows), for a non-empty list *)
n_time_slots(time_windows) ==
  LET E == {time_windows[w][2] : w \in 1 .. Len(time_windows)}
  IN  CHOOSE m \in E : \A e \in E : e <= m

ScheduleVars(nt, nr, ns) == Indices(nt) \X Indices(nr) \X Indices(ns)

(* "Each task must be assigned exactly once" *)
AssignedOnce(x, nt, nr, ns) ==
  \A i \in Indices(nt) :
    Count(x, {<<i, j, t>> : j \in Indices(nr), t \in Indices(ns)}) = 1

(* The formulation without its resource capacity constraints. *)
ResourceCapacityDropped(x, nt, nr, ns) == TRUE

(* "Resource capacity constraints" *)
ResourceCapacity(x, nt, nr, ns) ==
  \A j \in Indices(nr) : \A t \in Indices(ns) :
    Count(x, {<<i, j, t>> : i \in Indices(nt)}) <= 1

(* Constraints that forbid the start slots outside every window. *)
TimeWindowsEnforced(x, nt, nr, time_windows) ==
  \A a \in DOMAIN x :
    x[a] = 1 => \E w \in 1 .. Len(time_windows) :
                  time_windows[w][1] <= a[3] /\ a[3] < time_windows[w][2]

(* "Time window constraints": one constraint per task and window, over the  *)
(* slots range(start, end).                                                 *)
TimeWindowCaps(x, nt, nr, time_windows) ==
  \A i \in Indices(nt) : \A w \in 1 .. Len(time_windows) :
    Count(x, {<<i, j, t>> : j \in Indices(nr),
                            t \in time_windows[w][1] .. (time_windows[w][2] - 1)}) <= 1

ScheduleFeasible(x, inp) ==
  LET nt == Len(inp.tasks)
      nr == Len(inp.resources)
      ns == n_time_slots(inp.time_windows)
  IN  /\ AssignedOnce(x, nt, nr, ns)
      /\ ResourceCapacity(x, nt, nr, ns)
      /\ TimeWindowCaps(x, nt, nr, inp.time_windows)

(* "minimize weighted completion time" *)
ScheduleObjective(x, inp) ==
  LET S == DOMAIN x
  IN  lpSum([a \in S |-> inp.tasks[a[1] + 1].priority * a[3] * x[a]], S)

(* The solver's search space: AssignedOnce gives every task one selected    *)
(* (resource, slot).                                                        *)
ScheduleShaped(nt, nr, ns) ==
  { [a \in ScheduleVars(nt, nr, ns) |-> IF as[a[1]] = <<a[2], a[3]>> THEN 1 ELSE 0]
    : as \in [Indices(nt) -> Indices(nr) \X Indices(ns)] }

SolveSchedule(inp) ==
  LET nt == Len(inp.tasks)
      nr == Len(inp.resources)
      ns == n_time_slots(inp.time_windows)
      F == {x \in ScheduleShaped(nt, nr, ns) : ScheduleFeasible(x, inp)}
      best == Min({ScheduleObjective(x, inp) : x \in F})
  IN  IF F # {}
      THEN { [status |-> IF ScheduleObjective(x, inp) = best THEN "Optimal" ELSE "Not Solved",
              assigned |-> TRUE, x |-> x, eps |-> {}] : x \in F }
      ELSE { [status |-> "Infeasible", assigned |-> FALSE,
              x |-> [a \in ScheduleVars(nt, nr, ns) |-> 0], eps |-> {}] }
           \cup
           { [status |-> "Infeasible", assigned |-> TRUE, x |-> x, eps |-> {}]
               : x \in [ScheduleVars(nt, nr, ns) -> {0, 1}] }

(* The three nested for-loops of the extraction, from position m of the     *)
(* (i, j, t) order.                                                         *)
RECURSIVE ScanFrom(_, _, _, _, _, _)
ScanFrom(s, inp, nr, ns, m, acc) ==
  IF m >= Len(inp.tasks) * nr * ns THEN acc
  ELSE LET i == m \div (nr * ns)
           j == (m \div ns) % nr
           t == m % ns
       IN  IF s.assigned /\ value(s, <<i, j, t>>) = 1000
           THEN ScanFrom(s, inp, nr, ns, m + 1,
                  [schedule |-> Append(acc.schedule,
                                  [task_id |-> inp.tasks[i + 1].id,
                                   resource_id |-> inp.resources[j + 1].id,
                                   start_time |-> t,
                                   duration |-> inp.tasks[i + 1].duration]),
                   total_weighted_time |->
                     acc.total_weighted_time + inp.tasks[i + 1].priority * t])
           ELSE ScanFrom(s, inp, nr, ns, m + 1, acc)

ExtractSchedule(s, inp) ==
  ScanFrom(s, inp, Len(inp.resources), n_time_slots(inp.time_windows), 0,
           [schedule |-> <<>>, total_weighted_time |-> 0])

(* except Exception as e: logger.error(...); raise *)
ScheduleExcept(exc) == [kind |-> "raised", exc |-> exc]

(* optimize_delivery_schedule: prob is constructed first (line 213); max()  *)
(* of an empty time_windows raises ValueError (line 217).                   *)
ScheduleOutcomes(inp, solved) ==
  IF inp.time_windows = <<>>
  THEN { [sol |-> NoSol, trace |-> [built |-> TRUE, exc |-> "ValueError"],
          out |-> ScheduleExcept("ValueError")] }
  ELSE { [sol |-> NoSol, trace |-> [built |-> TRUE, exc |-> "PulpSolverError"],
          out |-> ScheduleExcept("PulpSolverError")] }
       \cup
       { [sol |-> s, trace |-> [built |-> TRUE, exc |-> "none"],
          out |-> LET e == ExtractSchedule(s, inp)
                  IN  [kind |-> "returned", schedule |-> e.schedule,
                       total_weighted_time |-> e.total_weighted_time,
                       status |-> s.status,
                       objective_value |-> IF s.assigned THEN ScheduleObjective(s.x, inp) ELSE 0]]
         : s \in solved }

OptimizeDeliverySchedule(inp) == ScheduleOutcomes(inp, SolveSchedule(inp))

(* Inputs of optimize_delivery_schedule *)
TaskKinds == {[duration |-> 1, priority |-> 2], [duration |-> 2, priority |-> 1]}

TaskLists ==
  UNION { { [i \in 1 .. m |-> [id |-> i, duration |-> k[i].duration, priority |-> k[i].priority]]
            : k \in [1 .. m -> TaskKinds] }
          : m \in 0 .. MaxTasks }

ResourceLists == { [j \in 1 .. m |-> [id |-> j]] : m \in 0 .. MaxResources }

Windows == {<<0, 1>>, <<0, 2>>, <<1, 2>>}

WindowLists == UNION {[1 .. m -> Windows] : m \in 0 .. MaxWindows}

ScheduleInputs ==
  { [engine |-> "optimize_delivery_schedule", tasks |-> ts, resources |-> rs,
     time_windows |-> tws]
    : ts \in TaskLists, rs \in ResourceLists, tws \in WindowLists }

(* ======================================================================= *)
(* LogisticsOptimizer.optimize_inventory                                    *)
(* An input is [engine, historical_demand, lead_time, holding_cost,         *)
(* stockout_cost]: a list of integer demands, an integer lead time and      *)
(* integer cost rates.  A float is [k, v]: k = "fin" with v the value in    *)
(* thousandths, or "nan", "inf", "-inf" (IEEE 754 special values).          *)
(* ======================================================================= *)
Scale == 1000

Fin(v) == [k |-> "fin", v |-> v]
NaN == [k |-> "nan", v |-> 0]
PosInf == [k |-> "inf", v |-> 0]
NegInf == [k |-> "-inf", v |-> 0]

(* a / b rounded to the nearest integer, b # 0 *)
RoundDiv(a, b) ==
  IF b > 0 THEN (2 * a + b) \div (2 * b) ELSE (-2 * a - b) \div (-2 * b)

(* -1, 0, 1: the sign of a float that is not NaN *)
Sign(a) ==
  IF a.k = "inf" THEN 1 ELSE IF a.k = "-inf" THEN -1
  ELSE IF a.v > 0 THEN 1 ELSE IF a.v < 0 THEN -1 ELSE 0

(* a * b *)
FMul(a, b) ==
  IF a.k = "nan" \/ b.k = "nan" THEN NaN
  ELSE IF a.k = "fin" /\ b.k = "fin" THEN Fin(RoundDiv(a.v * b.v, Scale))
  ELSE IF Sign(a) * Sign(b) = 0 THEN NaN
  ELSE IF Sign(a) * Sign(b) > 0 THEN PosInf ELSE NegInf

(* a + b *)
FAdd(a, b) ==
  IF a.k = "nan" \/ b.k = "nan" THEN NaN
  ELSE IF a.k = "fin" /\ b.k = "fin" THEN Fin(a.v + b.v)
  ELSE IF a.k = "fin" THEN b
  ELSE IF b.k = "fin" \/ a.k = b.k THEN a
  ELSE NaN

(* Largest r in lo .. hi with r * r <= v *)
RECURSIVE ISqrtIn(_, _, _)
ISqrtIn(v, lo, hi) ==
  IF lo >= hi THEN lo
  ELSE LET mid == (lo + hi + 1) \div 2
       IN  IF mid * mid <= v THEN ISqrtIn(v, mid, hi) ELSE ISqrtIn(v, lo, mid - 1)

ISqrt(v) == ISqrtIn(v, 0, 46340)

(* np.sqrt: NaN for a negative argument *)
FSqrt(a) ==
  IF a.k = "nan" \/ a.k = "-inf" THEN NaN
  ELSE IF a.k = "inf" THEN PosInf
  ELSE IF a.v < 0 THEN NaN
  ELSE Fin(ISqrt(a.v * Scale))

(* np.mean: NaN for an empty array *)
np_mean(historical_demand) ==
  LET I == 1 .. Len(historical_demand)
  IN  IF historical_demand = <<>> THEN NaN
      ELSE Fin(RoundDiv(lpSum([i \in I |-> historical_demand[i] * Scale], I),
                        Len(historical_demand)))

(* np.std (population standard deviation): NaN for an empty array *)
np_std(historical_demand) ==
  LET I == 1 .. Len(historical_demand)
      m == np_mean(historical_demand).v
      dev(i) == historical_demand[i] * Scale - m
  IN  IF historical_demand = <<>> THEN NaN
      ELSE FSqrt(Fin(RoundDiv(lpSum([i \in I |-> RoundDiv(dev(i) * dev(i), Scale)], I),
                              Len(historical_demand))))

(* stats.norm.ppf at the probabilities the explored cost rates give:        *)
(* NaN outside [0, 1], -inf at 0, +inf at 1.                                *)
norm_ppf(p) ==
  IF p.k # "fin" \/ p.v < 0 \/ p.v > Scale THEN NaN
  ELSE CASE p.v = 0 -> NegInf
         [] p.v = 250 -> Fin(-674)
         [] p.v = 500 -> Fin(0)
         [] p.v = 750 -> Fin(674)
         [] p.v = 900 -> Fin(1282)
         [] p.v = Scale -> PosInf

(* stats.norm.pdf at the z-scores norm_ppf gives *)
norm_pdf(z) ==
  IF z.k = "nan" THEN NaN
  ELSE IF z.k # "fin" THEN Fin(0)
  ELSE CASE z.v = 0 -> Fin(399)
         [] z.v \in {674, -674} -> Fin(318)
         [] z.v \in {1282, -1282} -> Fin(175)

(* A lead time accumulated on the instance over the calls. *)
sqrt_lead_time_accumulated(lead_time) ==
  FSqrt(Fin((IF memo.is_none THEN lead_time ELSE lead_time + memo.input.lead_time) * Scale))

(* np.sqrt(lead_time) *)
sqrt_lead_time(lead_time) == FSqrt(Fin(lead_time * Scale))

(* z_score * demand_std * lead_time: the safety stock without the root *)
safety_stock_linear(z_score, demand_std, lead_time) ==
  FMul(FMul(z_score, demand_std), Fin(lead_time * Scale))

(* safety_stock = z_score * demand_std * np.sqrt(lead_time) *)
safety_stock(z_score, demand_std, lead_time) ==
  FMul(FMul(z_score, demand_std), sqrt_lead_time(lead_time))

(* eoq = np.sqrt((2 * annual_demand * order_cost) / holding_cost), with     *)
(* annual_demand = demand_mean * 365 and order_cost = stockout_cost * 10;   *)
(* the quotient is kept in whole units and the root to one decimal.  A      *)
(* numpy float divided by 0 is +-inf, or NaN for 0 / 0.                     *)
eoq(demand_mean, stockout_cost, holding_cost) ==
  LET order_cost == stockout_cost * 10
      annual_demand == RoundDiv(demand_mean.v * 365, Scale)
      numerator == 2 * annual_demand * order_cost
  IN  IF demand_mean.k = "nan" THEN NaN
      ELSE IF holding_cost = 0
           THEN (IF numerator > 0 THEN PosInf ELSE NaN)
           ELSE LET q == RoundDiv(numerator, holding_cost)
                IN  IF q < 0 THEN NaN ELSE Fin(ISqrt(q * 100) * 100)

(* The try block of optimize_inventory once the critical ratio exists. *)
InventoryPolicy(inp) ==
  LET demand_mean == np_mean(inp.historical_demand)
      demand_std == np_std(inp.historical_demand)
      critical_ratio ==
        Fin(RoundDiv(inp.stockout_cost * Scale, inp.holding_cost + inp.stockout_cost))
      z_score == norm_ppf(critical_ratio)
      ss == safety_stock(z_score, demand_std, inp.lead_time)
      reorder_point == FAdd(FMul(demand_mean, Fin(inp.lead_time * Scale)), ss)
      expected_holding_cost == FMul(Fin(inp.holding_cost * Scale), ss)
      expected_stockout_cost ==
        FMul(FMul(Fin(inp.stockout_cost * Scale), demand_std), norm_pdf(z_score))
  IN  [kind |-> "returned",
       reorder_point |-> reorder_point,
       safety_stock |-> ss,
       economic_order_quantity |-> eoq(demand_mean, inp.stockout_cost, inp.holding_cost),
       expected_total_cost |-> FAdd(expected_holding_cost, expected_stockout_cost),
       service_level |-> critical_ratio,
       metrics |-> [demand_mean |-> demand_mean, demand_std |-> demand_std,
                    expected_holding_cost |-> expected_holding_cost,
                    expected_stockout_cost |-> expected_stockout_cost]]

(* except Exception as e: logger.error(...); raise *)
InventoryExcept(exc) == [kind |-> "raised", exc |-> exc]

(* optimize_inventory: outcomes [trace, out].  The division of the two      *)
(* Python numbers raises ZeroDivisionError when the cost rates sum to 0.    *)
OptimizeInventory(inp) ==
  IF inp.holding_cost + inp.stockout_cost = 0
  THEN [trace |-> [built |-> FALSE, exc |-> "ZeroDivisionError"],
        out |-> InventoryExcept("ZeroDivisionError")]
  ELSE [trace |-> [built |-> FALSE, exc |-> "none"], out |-> InventoryPolicy(inp)]

(* Inputs of optimize_inventory *)
MaxHistory == 2
HistoryLevels == {80, 100, 120}
LeadTimes == {1, 4, 7}
HoldingCosts == {-1, 0, 2, 6}
StockoutCosts == {-1, 0, 2, 18}

InventoryInputs ==
  { [engine |-> "optimize_inventory", historical_demand |-> h, lead_time |-> l,
     holding_cost |-> hc, stockout_cost |-> sc]
    : h \in UNION {[1 .. m -> HistoryLevels] : m \in 0 .. MaxHistory},
      l \in LeadTimes, hc \in HoldingCosts, sc \in StockoutCosts }

(* ======================================================================= *)
(* The state machine                                                        *)
(* ======================================================================= *)
Init ==
  /\ pc = "idle"
  /\ input = NoInput
  /\ sol = NoSol
  /\ trace = NoTrace
  /\ out = NoOut
  /\ last_solution = NoLastSolution
  /\ memo = NoMemo
  /\ again = NoAgain
  /\ calls = NoCalls
  /\ writes = <<>>

CallOptimizeRoutes ==
  /\ pc = "idle"
  /\ \E inp \in {i \in RouteInputs : WellShaped(i)} \cup {SquareScenario} : input' = inp
  /\ pc' = "called"
  /\ UNCHANGED <<sol, trace, out, last_solution>>
  /\ UNCHANGED <<memo, again, calls, writes>>

RunOptimizeRoutes ==
  /\ pc = "called"
  /\ input.engine = "optimize_routes"
  /\ \E r \in OptimizeRoutes(input) : sol' = r.sol /\ trace' = r.trace /\ out' = r.out
  /\ pc' = "done"
  /\ UNCHANGED <<input, last_solution>>
  /\ UNCHANGED <<memo, again, calls, writes>>

CallOptimize ==
  /\ pc = "idle"
  /\ \E inp \in OptimizeInputs : input' = inp
  /\ pc' = "called"
  /\ UNCHANGED <<sol, trace, out, last_solution>>
  /\ UNCHANGED <<memo, again, calls, writes>>

RunOptimize ==
  /\ pc = "called"
  /\ input.engine = "optimize"
  /\ \E r \in Optimize(input, last_solution) :
       sol' = r.sol /\ trace' = r.trace /\ out' = r.out /\ last_solution' = r.last_solution
  /\ pc' = "done"
  /\ UNCHANGED input
  /\ UNCHANGED <<memo, again, calls, writes>>

CallOptimizeDeliverySchedule ==
  /\ pc = "idle"
  /\ \E inp \in ScheduleInputs : input' = inp
  /\ pc' = "called"
  /\ UNCHANGED <<sol, trace, out, last_solution>>
  /\ UNCHANGED <<memo, again, calls, writes>>

RunOptimizeDeliverySchedule ==
  /\ pc = "called"
  /\ input.engine = "optimize_delivery_schedule"
  /\ \E r \in OptimizeDeliverySchedule(input) :
       sol' = r.sol /\ trace' = r.trace /\ out' = r.out
  /\ pc' = "done"
  /\ UNCHANGED <<input, last_solution>>
  /\ UNCHANGED <<memo, again, calls, writes>>

NewInstances ==
  /\ pc = "done"
  /\ pc' = "idle"
  /\ input' = NoInput
  /\ sol' = NoSol
  /\ trace' = NoTrace
  /\ out' = NoOut
  /\ last_solution' = NoLastSolution
  /\ memo' = NoMemo
  /\ again' = NoAgain
  /\ UNCHANGED <<calls, writes>>

CallOptimizeInventory ==
  /\ pc = "idle"
  /\ \E inp \in InventoryInputs : input' = inp
  /\ pc' = "called"
  /\ UNCHANGED <<sol, trace, out, last_solution>>
  /\ UNCHANGED <<memo, again, calls, writes>>

RunOptimizeInventory ==
  /\ pc = "called"
  /\ input.engine = "optimize_inventory"
  /\ trace' = OptimizeInventory(input).trace
  /\ out' = OptimizeInventory(input).out
  /\ pc' = "done"
  /\ UNCHANGED <<input, sol, last_solution>>
  /\ UNCHANGED <<memo, again, calls, writes>>

(* A direct call of RouteOptimizer.calculate_distances *)
CallCalculateDistances ==
  /\ pc = "idle"
  /\ \E inp \in OptimizeInputs : input' = [inp EXCEPT !.engine = "calculate_distances"]
  /\ pc' = "called"
  /\ UNCHANGED <<sol, trace, out, last_solution>>
  /\ UNCHANGED <<memo, again, calls, writes>>

RunCalculateDistances ==
  /\ pc = "called"
  /\ input.engine = "calculate_distances"
  /\ IF MissingCoordinates(input.locations)
     THEN /\ trace' = [built |-> FALSE, exc |-> "KeyError"]
          /\ out' = [kind |-> "raised", exc |-> "KeyError"]
     ELSE /\ trace' = trace
          /\ out' = [kind |-> "returned",
                     distances |-> calculate_distances(input.locations)]
  /\ pc' = "done"
  /\ UNCHANGED <<input, sol, last_solution>>
  /\ UNCHANGED <<memo, again, calls, writes>>

(* A direct call of RouteOptimizer._extract_routes on 0/1 arc values.  The  *)
(* loop reads x[current, j] for unvisited j only, never the diagonal or an  *)
(* arc into the depot: those are kept 0.                                    *)
ExtractInputs ==
  UNION { { [engine |-> "_extract_routes", n_locations |-> n,
             x |-> [a \in PlanarArcs(n) |-> IF a \in on THEN 1 ELSE 0]]
            : on \in SUBSET {a \in PlanarArcs(n) : a[2] # 0 /\ a[1] # a[2]} }
          : n \in 0 .. MaxExtractLocations }

CallExtractRoutes ==
  /\ pc = "idle"
  /\ \E inp \in ExtractInputs : input' = inp
  /\ pc' = "called"
  /\ UNCHANGED <<sol, trace, out, last_solution>>
  /\ UNCHANGED <<memo, again, calls, writes>>

RunExtractRoutes ==
  /\ pc = "called"
  /\ input.engine = "_extract_routes"
  /\ LET e == extract_routes(input.x, input.n_locations)
     IN  out' = IF e.diverges THEN [kind |-> "diverged"]
                ELSE [kind |-> "returned", routes |-> e.routes]
  /\ pc' = "done"
  /\ UNCHANGED <<input, sol, trace, last_solution>>
  /\ UNCHANGED <<memo, again, calls, writes>>

(* The extraction run a second time on the variables of a finished call     *)
(* that reached its extraction.                                             *)
ReExtract ==
  /\ pc = "done"
  /\ again = NoAgain
  /\ input.engine \in {"optimize", "optimize_routes"}
  /\ trace.exc = "none"
  /\ LET x1 == values_after_extraction(sol.x)
         x2 == values_after_extraction(x1)
     IN  IF input.engine = "optimize"
         THEN LET e == extract_routes(x1, Len(input.locations))
              IN  again' = [kind |-> IF e.diverges THEN "diverged" ELSE "returned",
                            routes |-> e.routes, x |-> x2]
         ELSE LET e == ExtractRoutes([sol EXCEPT !.x = x1], input)
              IN  again' = [kind |-> IF e.diverges THEN "diverged" ELSE "returned",
                            routes |-> e.routes, x |-> x2]
  /\ UNCHANGED <<pc, input, sol, trace, out, last_solution, memo, calls, writes>>

Next ==
  \/ CallCalculateDistances \/ RunCalculateDistances
  \/ CallExtractRoutes \/ RunExtractRoutes
  \/ ReExtract
  \/ CallOptimize \/ RunOptimize
  \/ CallOptimizeRoutes \/ RunOptimizeRoutes
  \/ CallOptimizeDeliverySchedule \/ RunOptimizeDeliverySchedule
  \/ CallOptimizeInventory \/ RunOptimizeInventory
  \/ NewInstances

Spec == Init /\ [][Next]_vars

(* ======================================================================= *)
(* Several calls, one after the other, on one LogisticsOptimizer instance   *)
(* ======================================================================= *)
SessionInventoryInputs ==
  { i \in InventoryInputs :
      /\ Len(i.historical_demand) \in {0, MaxHistory}
      /\ i.lead_time = 7
      /\ i.holding_cost \in {0, 2}
      /\ i.stockout_cost \in {0, 18} }

SessionScheduleInputs ==
  { i \in ScheduleInputs :
      Len(i.tasks) <= 1 /\ Len(i.resources) = 1 /\ Len(i.time_windows) <= 1 }

SessionCallOptimizeInventory ==
  /\ pc = "idle"
  /\ \E inp \in SessionInventoryInputs : input' = inp
  /\ pc' = "called"
  /\ UNCHANGED <<sol, trace, out, last_solution>>
  /\ UNCHANGED <<memo, again, calls, writes>>

SessionCallOptimizeDeliverySchedule ==
  /\ pc = "idle"
  /\ \E inp \in SessionScheduleInputs : input' = inp
  /\ pc' = "called"
  /\ UNCHANGED <<sol, trace, out, last_solution>>
  /\ UNCHANGED <<memo, again, calls, writes>>

(* The call is over and the caller keeps the instance.  memo remembers the  *)
(* finished optimize_inventory call, or keeps an earlier one.               *)
ReturnToCaller ==
  /\ pc = "done"
  /\ out.kind # "diverged"
  /\ pc' = "idle"
  /\ \/ /\ input.engine = "optimize_inventory"
        /\ memo' = [is_none |-> FALSE, input |-> input, out |-> out]
     \/ memo' = memo
  /\ input' = NoInput
  /\ sol' = NoSol
  /\ trace' = NoTrace
  /\ out' = NoOut
  /\ UNCHANGED <<last_solution, again, calls, writes>>

NextSessions ==
  \/ SessionCallOptimizeInventory \/ RunOptimizeInventory
  \/ SessionCallOptimizeDeliverySchedule \/ RunOptimizeDeliverySchedule
  \/ ReturnToCaller

SpecSessions == Init /\ [][NextSessions]_vars

(* ======================================================================= *)
(* Several optimize calls, one after the other, on one RouteOptimizer       *)
(* instance.  memo is the most recent call that completed successfully.     *)
(* ======================================================================= *)
SessionLocations ==
  UNION {[1 .. m -> {[x |-> 0, y |-> 0], [x |-> 3, y |-> 4]}] : m \in 0 .. MaxSessionLocations}

SessionCallOptimize ==
  /\ pc = "idle"
  /\ \E locs \in SessionLocations : input' = [engine |-> "optimize", locations |-> locs]
  /\ pc' = "called"
  /\ UNCHANGED <<sol, trace, out, last_solution>>
  /\ UNCHANGED <<memo, again, calls, writes>>

(* optimize has returned (a call whose extraction never ends does not). *)
ReturnFromOptimize ==
  /\ pc = "done"
  /\ input.engine = "optimize"
  /\ out.kind = "returned"
  /\ memo' = IF trace.exc = "none"
             THEN [is_none |-> FALSE, input |-> input, out |-> out] ELSE memo
  /\ pc' = "idle"
  /\ input' = NoInput
  /\ sol' = NoSol
  /\ trace' = NoTrace
  /\ out' = NoOut
  /\ UNCHANGED <<last_solution, again, calls, writes>>

NextOptimizeSessions ==
  \/ SessionCallOptimize \/ RunOptimize
  \/ ReturnFromOptimize
  \/ NewInstances

SpecOptimizeSessions == Init /\ [][NextOptimizeSessions]_vars

(* ======================================================================= *)
(* Calls whose solver reports values within its integrality tolerance       *)
(* ======================================================================= *)
ToleranceRouteInputs ==
  { i \in RouteInputs : WellShaped(i) /\ i.n_locations \in {2, 3} /\ i.num_vehicles = 1
                        /\ DOMAIN i.demands = Nodes(i.n_locations)
                        /\ \A a, b \in Nodes(i.n_locations) : a # b => i.distances[a][b] = 100 }

ToleranceCallOptimizeRoutes ==
  /\ pc = "idle"
  /\ \E inp \in ToleranceRouteInputs : input' = inp
  /\ pc' = "called"
  /\ UNCHANGED <<sol, trace, out, last_solution>>
  /\ UNCHANGED <<memo, again, calls, writes>>

ToleranceRunOptimizeRoutes ==
  /\ pc = "called"
  /\ input.engine = "optimize_routes"
  /\ \E r \in RoutesOutcomes(input, WithinTolerance(SolveRoutes(input))) :
       sol' = r.sol /\ trace' = r.trace /\ out' = r.out
  /\ pc' = "done"
  /\ UNCHANGED <<input, last_solution>>
  /\ UNCHANGED <<memo, again, calls, writes>>

ToleranceRunOptimizeDeliverySchedule ==
  /\ pc = "called"
  /\ input.engine = "optimize_delivery_schedule"
  /\ \E r \in ScheduleOutcomes(input, WithinTolerance(SolveSchedule(input))) :
       sol' = r.sol /\ trace' = r.trace /\ out' = r.out
  /\ pc' = "done"
  /\ UNCHANGED <<input, last_solution>>
  /\ UNCHANGED <<memo, again, calls, writes>>

NextTolerance ==
  \/ ToleranceCallOptimizeRoutes \/ ToleranceRunOptimizeRoutes
  \/ CallOptimize \/ RunOptimize
  \/ SessionCallOptimizeDeliverySchedule \/ ToleranceRunOptimizeDeliverySchedule
  \/ NewInstances

SpecTolerance == Init /\ [][NextTolerance]_vars

(* ======================================================================= *)
(* Two RouteOptimizer.optimize calls running concurrently on one instance.  *)
(* locations, distances, prob, x and routes are locals of each call; the    *)
(* steps of a call are: the try block up to the extraction (line 101), the  *)
(* assignment to self.last_solution (line 102), the return (line 104).      *)
(* ======================================================================= *)
MaxConcurrentLocations == 2
ConcurrentPoints == {[x |-> 0, y |-> 0], [x |-> 3, y |-> 4]}
ConcurrentLocations ==
  UNION {[1 .. m -> ConcurrentPoints] : m \in 0 .. MaxConcurrentLocations}
Threads == {1, 2}

ConcurrentCall(t) ==
  /\ calls[t].pc = "idle"
  /\ \E locs \in ConcurrentLocations :
       calls' = [calls EXCEPT ![t] = [NoCall EXCEPT !.pc = "called", !.locations = locs]]
  /\ UNCHANGED <<pc, input, sol, trace, out, last_solution, memo, again, writes>>

ConcurrentSolve(t) ==
  /\ calls[t].pc = "called"
  /\ \E r \in Optimize([engine |-> "optimize", locations |-> calls[t].locations],
                       last_solution) :
       calls' = [calls EXCEPT ![t] =
                   IF r.trace.exc # "none"
                   THEN [@ EXCEPT !.pc = "done", !.sol = r.sol, !.out = r.out]
                   ELSE IF r.out.kind = "diverged"
                   THEN [@ EXCEPT !.pc = "diverged", !.sol = r.sol]
                   ELSE [@ EXCEPT !.pc = "extracted", !.sol = r.sol,
                                  !.routes = r.out.routes]]
  /\ UNCHANGED <<pc, input, sol, trace, out, last_solution, memo, again, writes>>

ConcurrentWrite(t) ==
  /\ calls[t].pc = "extracted"
  /\ last_solution' = AssignLastSolution(last_solution, calls[t].routes)
  /\ writes' = Append(writes, t)
  /\ calls' = [calls EXCEPT ![t].pc = "written"]
  /\ UNCHANGED <<pc, input, sol, trace, out, memo, again>>

ConcurrentReturn(t) ==
  /\ calls[t].pc = "written"
  /\ calls' = [calls EXCEPT ![t].pc = "done",
                            ![t].out = [kind |-> "returned", routes |-> calls[t].routes]]
  /\ UNCHANGED <<pc, input, sol, trace, out, last_solution, memo, again, writes>>

(* Both calls are over (or never end); a new instance is made. *)
ConcurrentJoin ==
  /\ \A t \in Threads : calls[t].pc \in {"done", "diverged"}
  /\ calls' = NoCalls
  /\ writes' = <<>>
  /\ last_solution' = NoLastSolution
  /\ UNCHANGED <<pc, input, sol, trace, out, memo, again>>

NextConcurrent ==
  \/ \E t \in Threads :
       \/ ConcurrentCall(t)
       \/ ConcurrentSolve(t)
       \/ ConcurrentWrite(t)
       \/ ConcurrentReturn(t)
  \/ ConcurrentJoin

SpecConcurrent == Init /\ [][NextConcurrent]_vars

(* ======================================================================= *)
(* Claims                                                                   *)
(* ======================================================================= *)

(* A finished optimize_routes call whose solver values satisfy every        *)
(* constraint of the formulation.                                           *)
FeasibleRoutesCall ==
  /\ pc = "done"
  /\ input.engine = "optimize_routes"
  /\ sol.assigned
  /\ Feasible(sol.x, input)

RoutesContaining(j) == {r \in 1 .. Len(out.routes) : j \in Range(out.routes[r])}

(* Length of the closed tour of a route: its consecutive arcs and the arc   *)
(* from its last stop back to the depot.                                    *)
TourDistance(route, D) ==
  LET I == 1 .. Len(route)
  IN  lpSum([i \in I |-> IF i < Len(route) THEN D[route[i]][route[i + 1]]
                         ELSE D[route[i]][0]], I)

RouteDemand(route, demands) ==
  LET I == {i \in 1 .. Len(route) : route[i] # 0}
  IN  lpSum([i \in I |-> demands[route[i]]], I)

(* C1: for every feasible solution, every non-depot location 1..N-1 is in   *)
(* exactly one of the returned routes.                                      *)
C1_EveryLocationInOneRoute ==
  FeasibleRoutesCall =>
    \A j \in 1 .. (input.n_locations - 1) : Cardinality(RoutesContaining(j)) = 1

(* C2: for every feasible solution, each returned route's closed tour is at *)
(* most max_distance long and its stops demand at most vehicle_capacity.    *)
C2_RoutesWithinLimits ==
  FeasibleRoutesCall =>
    \A r \in 1 .. Len(out.routes) :
      /\ TourDistance(out.routes[r], input.distances) <= max_distance
      /\ RouteDemand(out.routes[r], input.demands) <= vehicle_capacity

(* C2 witness: a returned route that uses the whole capacity, and one as    *)
(* long as max_distance allows.                                             *)
C2_Witness ==
  /\ FeasibleRoutesCall
  /\ \E r \in 1 .. Len(out.routes) :
       /\ RouteDemand(out.routes[r], input.demands) = vehicle_capacity
       /\ TourDistance(out.routes[r], input.distances) = max_distance

(* The arcs (i, j), i # j, with x[i,j,k] = 1. *)
VehicleArcs(x, n, k) ==
  {a \in Nodes(n) \X Nodes(n) : a[1] # a[2] /\ x[<<a[1], a[2], k>>] = 1}

RECURSIVE ReachableFrom(_, _)
ReachableFrom(A, S) ==
  LET T == S \cup {a[2] : a \in {b \in A : b[1] \in S}}
  IN  IF T = S THEN S ELSE ReachableFrom(A, T)

(* A is one simple cycle that passes through the depot. *)
SimpleCycleThroughDepot(A) ==
  LET V == {a[1] : a \in A} \cup {a[2] : a \in A}
  IN  /\ 0 \in V
      /\ \A v \in V : /\ Cardinality({a \in A : a[1] = v}) = 1
                      /\ Cardinality({a \in A : a[2] = v}) = 1
      /\ ReachableFrom(A, {0}) = V

(* C3: in every feasible solution the selected arcs of each vehicle are     *)
(* empty or form exactly one simple cycle through the depot.                *)
C3_ArcsFormOneDepotCycle ==
  FeasibleRoutesCall =>
    \A k \in Vehicles(input.num_vehicles) :
      LET A == VehicleArcs(sol.x, input.n_locations, k)
      IN  A = {} \/ SimpleCycleThroughDepot(A)

VisitOrders(S) == {p \in [1 .. Cardinality(S) -> S] : \A i, j \in DOMAIN p : p[i] = p[j] => i = j}

(* Brute force: the shortest closed tour from the depot through all others. *)
ShortestHamiltonianCycle(D, n) ==
  Min({TourDistance(<<0>> \o p, D) : p \in VisitOrders(1 .. (n - 1))})

(* C4: on the depot-plus-three-points scenario with one vehicle, every      *)
(* optimal solution yields a single route through all three locations and   *)
(* total_distance equal to the shortest Hamiltonian cycle.                  *)
C4_SquareOptimumIsHamiltonian ==
  (FeasibleRoutesCall /\ input = SquareScenario /\ sol.status = "Optimal") =>
    /\ Len(out.routes) = 1
    /\ {1, 2, 3} \subseteq Range(out.routes[1])
    /\ out.total_distance = ShortestHamiltonianCycle(SquareDistances, 4)

(* C5: every returned route starts at the depot and ends at the depot.      *)
C5_RoutesStartAndEndAtDepot ==
  (pc = "done" /\ input.engine = "optimize_routes" /\ out.kind = "returned") =>
    \A r \in 1 .. Len(out.routes) :
      /\ out.routes[r][1] = 0
      /\ out.routes[r][Len(out.routes[r])] = 0

(* C6: when the solver reports Infeasible, optimize_routes returns normally *)
(* with an empty route list and the status in the result.                   *)
C6_InfeasibleReturnsEmptyRoutes ==
  (pc = "done" /\ input.engine = "optimize_routes" /\ sol.status = "Infeasible") =>
    /\ out.kind = "returned"
    /\ out.routes = <<>>
    /\ out.status = "Infeasible"

(* What the caller observes when the call of the engine fails with an       *)
(* internal error (an exception raised inside its try block).               *)
InternalErrorOuts ==
  IF input.engine = "optimize" THEN {OptimizeExcept(FALSE, "ValueError", last_solution).out}
  ELSE {RoutesExcept(e) : e \in {"IndexError", "ValueError", "PulpSolverError"}}

(* C7: in every engine, when the solver reports Infeasible the call returns *)
(* a result that carries the status, and what the caller observes differs   *)
(* from what it observes when the call fails with an internal error.        *)
C7_InfeasibilityReportedAsStatus ==
  (pc = "done" /\ sol.status = "Infeasible") =>
    /\ out.kind = "returned"
    /\ "status" \in DOMAIN out
    /\ out.status = "Infeasible"
    /\ out \notin InternalErrorOuts

EmptyLocations ==
  \/ input.engine = "optimize" /\ input.locations = <<>>
  \/ input.engine = "optimize_routes" /\ input.n_locations = 0

(* C8: a route engine called with an empty location list fails with an      *)
(* InvalidInputError that reaches the caller, before any solver problem is  *)
(* constructed or solved.                                                   *)
C8_EmptyLocationsRaiseInvalidInput ==
  (pc = "done" /\ EmptyLocations) =>
    /\ out.kind = "raised"
    /\ out.exc = "InvalidInputError"
    /\ ~ trace.built
    /\ sol.status = "none"

(* C9: optimize_delivery_schedule with an empty task, resource or time      *)
(* window list fails with an InvalidInputError before the solver is         *)
(* invoked.                                                                 *)
C9_EmptyScheduleListsRaiseInvalidInput ==
  (/\ pc = "done"
   /\ input.engine = "optimize_delivery_schedule"
   /\ (input.tasks = <<>> \/ input.resources = <<>> \/ input.time_windows = <<>>)) =>
    /\ out.kind = "raised"
    /\ out.exc = "InvalidInputError"
    /\ sol.status = "none"

(* C10: an exception raised inside an engine reaches the caller as an       *)
(* OptimizationError that wraps the original cause.                         *)
C10_ExceptionsWrappedAsOptimizationError ==
  (pc = "done" /\ trace.exc # "none") =>
    /\ out.kind = "raised"
    /\ out.exc = "OptimizationError"
    /\ "cause" \in DOMAIN out
    /\ out.cause = trace.exc

(* A finished optimize_delivery_schedule call whose solver values satisfy   *)
(* every constraint of the formulation.                                     *)
FeasibleScheduleCall ==
  /\ pc = "done"
  /\ input.engine = "optimize_delivery_schedule"
  /\ input.time_windows # <<>>
  /\ sol.assigned
  /\ ScheduleFeasible(sol.x, input)

RecordsOfTask(i) ==
  {r \in 1 .. Len(out.schedule) : out.schedule[r].task_id = input.tasks[i].id}

(* C11: for every feasible solution the returned schedule has exactly one   *)
(* record per task, and no two records share (resource_id, start_time).     *)
C11_OneRecordPerTaskDistinctStarts ==
  FeasibleScheduleCall =>
    /\ out.kind = "returned"
    /\ Len(out.schedule) = Len(input.tasks)
    /\ \A i \in 1 .. Len(input.tasks) : Cardinality(RecordsOfTask(i)) = 1
    /\ \A a, b \in 1 .. Len(out.schedule) :
         a # b => <<out.schedule[a].resource_id, out.schedule[a].start_time>>
                  # <<out.schedule[b].resource_id, out.schedule[b].start_time>>

(* Two tasks scheduled: on one resource at different slots. *)
C11_Witness ==
  /\ FeasibleScheduleCall
  /\ Len(out.schedule) = 2
  /\ out.schedule[1].resource_id = out.schedule[2].resource_id
  /\ out.schedule[1].start_time # out.schedule[2].start_time

(* Slots a record occupies: start_time .. start_time + duration - 1. *)
OccupiedSlots(rec) == rec.start_time .. (rec.start_time + rec.duration - 1)

(* C12: in every feasible returned schedule no two tasks occupy the same    *)
(* (resource, time-slot) pair, a task occupying its start slot and the      *)
(* duration - 1 slots after it.                                             *)
C12_NoTwoTasksOccupyOneSlot ==
  FeasibleScheduleCall =>
    \A a, b \in 1 .. Len(out.schedule) :
      (a # b /\ out.schedule[a].resource_id = out.schedule[b].resource_id)
        => OccupiedSlots(out.schedule[a]) \cap OccupiedSlots(out.schedule[b]) = {}

(* C13: every schedule returned for a feasible instance puts each task's    *)
(* start_time inside at least one supplied window [start, end).             *)
C13_StartTimesInsideWindows ==
  FeasibleScheduleCall =>
    \A r \in 1 .. Len(out.schedule) :
      \E w \in 1 .. Len(input.time_windows) :
        /\ input.time_windows[w][1] <= out.schedule[r].start_time
        /\ out.schedule[r].start_time < input.time_windows[w][2]

(* A finished optimize_inventory call. *)
InventoryCallDone == pc = "done" /\ input.engine = "optimize_inventory"

(* C14: optimize_inventory with holding_cost <= 0 or stockout_cost <= 0     *)
(* raises InvalidParameterError and never returns a policy.                 *)
C14_NonPositiveCostsRejected ==
  (InventoryCallDone /\ (input.holding_cost <= 0 \/ input.stockout_cost <= 0)) =>
    /\ out.kind = "raised"
    /\ out.exc = "InvalidParameterError"

PolicyValues ==
  {out.reorder_point, out.safety_stock, out.economic_order_quantity,
   out.expected_total_cost, out.service_level}

(* C16: with positive cost rates a demand history of standard deviation 0   *)
(* gives safety_stock = 0 and reorder_point = mean * lead_time, and an      *)
(* empty history gives an error or a policy without NaN values.             *)
C16_DegenerateDemandHandled ==
  InventoryCallDone =>
    /\ (/\ input.historical_demand # <<>>
        /\ np_std(input.historical_demand) = Fin(0)
        /\ input.holding_cost > 0
        /\ input.stockout_cost > 0)
         => /\ out.kind = "returned"
            /\ out.safety_stock = Fin(0)
            /\ out.reorder_point
                 = FMul(np_mean(input.historical_demand), Fin(input.lead_time * Scale))
    /\ input.historical_demand = <<>>
         => \/ out.kind = "raised"
            \/ \A v \in PolicyValues : v.k # "nan"

(* The inventory scenario: demand mean 100, standard deviation 20. *)
InventoryScenario ==
  [engine |-> "optimize_inventory", historical_demand |-> <<80, 120>>, lead_time |-> 7,
   holding_cost |-> 2, stockout_cost |-> 18]

Near(a, v) == a.k = "fin" /\ a.v - v <= 50 /\ v - a.v <= 50

(* C17: a returned policy has service_level = stockout_cost / (holding_cost *)
(* + stockout_cost), safety_stock = z * sigma * sqrt(lead_time) with z the  *)
(* inverse normal CDF at that ratio, and reorder_point = mean * lead_time + *)
(* safety_stock; the scenario gives 0.9, about 67.8 and about 767.8.        *)
C17_NewsvendorFormulas ==
  (InventoryCallDone /\ out.kind = "returned") =>
    /\ out.service_level
         = Fin(RoundDiv(input.stockout_cost * Scale, input.holding_cost + input.stockout_cost))
    /\ out.safety_stock
         = FMul(FMul(norm_ppf(out.service_level), out.metrics.demand_std),
                FSqrt(Fin(input.lead_time * Scale)))
    /\ out.reorder_point
         = FAdd(FMul(out.metrics.demand_mean, Fin(input.lead_time * Scale)),
                out.safety_stock)
    /\ input = InventoryScenario
         => /\ out.service_level = Fin(900)
            /\ Near(out.safety_stock, 67800)
            /\ Near(out.reorder_point, 767800)

C17_Witness == InventoryCallDone /\ input = InventoryScenario /\ out.kind = "returned"

(* C18: for every list of N locations with coordinates, calculate_distances *)
(* returns an N x N matrix that is symmetric, 0 on the diagonal and         *)
(* non-negative.                                                            *)
C18_DistanceMatrixSymmetric ==
  (/\ pc = "done"
   /\ input.engine = "calculate_distances"
   /\ \A i \in 1 .. Len(input.locations) : {"x", "y"} \subseteq DOMAIN input.locations[i]) =>
    /\ out.kind = "returned"
    /\ DOMAIN out.distances = Nodes(Len(input.locations))
    /\ \A i \in DOMAIN out.distances :
         /\ DOMAIN out.distances[i] = Nodes(Len(input.locations))
         /\ out.distances[i][i] = 0
         /\ \A j \in DOMAIN out.distances :
              out.distances[i][j] = out.distances[j][i] /\ out.distances[i][j] >= 0

(* Three locations, all with coordinates and pairwise apart. *)
C18_Witness ==
  /\ pc = "done"
  /\ input.engine = "calculate_distances"
  /\ out.kind = "returned"
  /\ Len(input.locations) = 3
  /\ out.distances[0][1] = 3 /\ out.distances[0][2] = 4 /\ out.distances[2][1] = 5

C19_WitnessOptimize ==
  /\ again # NoAgain
  /\ input.engine = "optimize"
  /\ again.kind = "returned"
  /\ Len(again.routes) >= 1

C19_WitnessOptimizeRoutes ==
  /\ again # NoAgain
  /\ input.engine = "optimize_routes"
  /\ again.kind = "returned"
  /\ Len(again.routes) >= 1

OwnRoutes(t) ==
  LET n == Len(calls[t].locations)
  IN  /\ calls[t].sol.status = "Optimal"
      /\ DOMAIN calls[t].sol.x = PlanarArcs(n)
      /\ PlanarFeasible(calls[t].sol.x, n)
      /\ calls[t].routes = extract_routes(calls[t].sol.x, n).routes

(* C20: under every interleaving of two concurrent optimize calls on one    *)
(* instance each call returns the routes computed from its own input, and   *)
(* last_solution is the result of the successful call that wrote last.      *)
C20_ConcurrentCallsKeepOwnResults ==
  /\ \A t \in Threads :
       /\ calls[t].pc \in {"extracted", "written"} => OwnRoutes(t)
       /\ calls[t].pc = "done" =>
            /\ calls[t].out.kind = "returned"
            /\ IF calls[t].sol.status = "Optimal"
               THEN OwnRoutes(t) /\ calls[t].out.routes = calls[t].routes
               ELSE calls[t].out.routes = <<>>
  /\ last_solution = IF writes = <<>> THEN NoLastSolution
                     ELSE [is_none |-> FALSE, routes |-> calls[writes[Len(writes)]].routes]

(* Both calls finished with different routes, the first call writing last. *)
C20_Witness ==
  /\ \A t \in Threads : calls[t].pc = "done"
  /\ writes = <<2, 1>>
  /\ calls[1].routes # calls[2].routes
  /\ last_solution.routes = calls[1].routes

(* A finished (or never ending) RouteOptimizer.optimize call on a non-empty *)
(* location list whose solver values satisfy the constraints of the         *)
(* simplified formulation.                                                  *)
FeasibleOptimizeCall ==
  /\ pc = "done"
  /\ input.engine = "optimize"
  /\ input.locations # <<>>
  /\ sol.assigned
  /\ DOMAIN sol.x = PlanarArcs(Len(input.locations))
  /\ PlanarFeasible(sol.x, Len(input.locations))

(* C21: for every non-empty location list and every solver solution that    *)
(* satisfies the constraints of the simplified formulation, the while-loop  *)
(* of _extract_routes terminates and optimize returns.                      *)
C21_ExtractRoutesTerminates ==
  FeasibleOptimizeCall => out.kind = "returned"

NoRepeatedStop(route) ==
  \A a, b \in 1 .. Len(route) : a # b => route[a] # route[b]

(* The steps of a finished walk: the selected arcs it followed, the last    *)
(* one being the arc back to the depot when the walk ended on it.           *)
ArcsFollowed(route, k) ==
  Len(route) - 1
    + (IF \E j \in Nodes(input.n_locations) :
            j # route[Len(route)] /\ Selected(sol, route[Len(route)], j, k)
       THEN 1 ELSE 0)

(* C22: in optimize_routes, for every feasible 0/1 solution and every       *)
(* vehicle, the walk from the depot ends after at most N steps (no selected *)
(* arc leaves the current stop, or the next stop is the depot) and visits   *)
(* no location twice.                                                       *)
C22_WalkTerminatesWithinNSteps ==
  FeasibleRoutesCall =>
    /\ out.kind = "returned"
    /\ \A k \in Vehicles(input.num_vehicles) :
         LET w == VehicleWalk(sol, input, k)
         IN  /\ ~ w.diverges
             /\ ArcsFollowed(w.route, k) <= input.n_locations
             /\ NoRepeatedStop(w.route)
             /\ w.route[1] = 0

(* A vehicle whose walk takes N steps: through every location and back. *)
C22_Witness ==
  /\ FeasibleRoutesCall
  /\ input.n_locations = 3
  /\ \E k \in Vehicles(input.num_vehicles) :
       /\ Len(VehicleWalk(sol, input, k).route) = 3
       /\ ArcsFollowed(VehicleWalk(sol, input, k).route, k) = 3

(* The value of variable a is greater than 0.5. *)
AboveHalf(a) == 2 * value(sol, a) > 1000

(* The schedule has the record of variable (i, j, t). *)
Scheduled(a) ==
  \E r \in 1 .. Len(out.schedule) :
    /\ out.schedule[r].task_id = input.tasks[a[1] + 1].id
    /\ out.schedule[r].resource_id = input.resources[a[2] + 1].id
    /\ out.schedule[r].start_time = a[3]

(* C23: every extraction routine (optimize_routes, the schedule, and        *)
(* _extract_routes) takes a variable as selected exactly when its value is  *)
(* greater than 0.5: 0.999 is read as selected, 0.001 as not selected.      *)
C23_SelectedMeansAboveHalf ==
  (pc = "done" /\ trace.exc = "none" /\ sol.assigned) =>
    /\ input.engine = "optimize_routes" =>
         \A a \in DOMAIN sol.x : Selected(sol, a[1], a[2], a[3]) <=> AboveHalf(a)
    /\ input.engine = "optimize_delivery_schedule" =>
         \A a \in DOMAIN sol.x : Scheduled(a) <=> AboveHalf(a)
    /\ input.engine = "optimize" =>
         \A a \in DOMAIN sol.x : PlanarSelected(sol.x, a[1], a[2]) <=> AboveHalf(a)

(* The distance travelled along a route: the matrix entries of its          *)
(* consecutive stops.                                                       *)
TravelledDistance(route, D) ==
  LET I == 1 .. (Len(route) - 1)
  IN  lpSum([i \in I |-> D[route[i]][route[i + 1]]], I)

CostsPerKm == {1, 2}

(* C24: each route record returned by RouteOptimizer.optimize has a         *)
(* distance equal to the sum of the entries of the call's distance matrix   *)
(* over its consecutive stops, so calculate_total_distance and              *)
(* calculate_cost give the travelled distance (times cost_per_km).          *)
C24_RouteDistanceIsTravelledDistance ==
  (pc = "done" /\ input.engine = "optimize" /\ out.kind = "returned" /\ trace.exc = "none") =>
    LET D == calculate_distances(input.locations)
        I == 1 .. Len(out.routes)
        travelled == lpSum([r \in I |-> TravelledDistance(out.routes[r].route, D)], I)
    IN  /\ \A r \in I : out.routes[r].distance = TravelledDistance(out.routes[r].route, D)
        /\ calculate_total_distance(out.routes) = travelled
        /\ \A c \in CostsPerKm : calculate_cost(out.routes, c) = travelled * c

Occurrences(route, j) == Cardinality({i \in 1 .. Len(route) : route[i] = j})

(* C25: for every optimal solution of the simplified formulation (at least  *)
(* one non-depot location) optimize returns a single path: one route        *)
(* record, starting at the depot, with every non-depot location once.       *)
C25_OptimalSolutionIsSinglePath ==
  (FeasibleOptimizeCall /\ sol.status = "Optimal" /\ Len(input.locations) >= 2) =>
    /\ out.kind = "returned"
    /\ Len(out.routes) = 1
    /\ out.routes[1].route[1] = 0
    /\ \A j \in 1 .. (Len(input.locations) - 1) : Occurrences(out.routes[1].route, j) = 1

C27_TotalDistanceOfReturnedRoutes ==
  (FeasibleRoutesCall /\ out.kind = "returned") =>
    LET I == 1 .. Len(out.routes)
    IN  out.total_distance
          = lpSum([r \in I |-> TourDistance(out.routes[r], input.distances)], I)

(* What the most recent successful optimize call of the session returned. *)
LastSuccessful ==
  IF memo.is_none THEN NoLastSolution ELSE [is_none |-> FALSE, routes |-> memo.out.routes]

(* C28: after any sequence of optimize calls on one instance last_solution  *)
(* is the route list returned by the most recent call that completed        *)
(* successfully (None if there was none); a failing call returns []         *)
(* without raising and leaves last_solution unchanged.                      *)
C28_LastSolutionIsLastSuccess ==
  /\ pc \in {"idle", "called"} => last_solution = LastSuccessful
  /\ (pc = "done" /\ input.engine = "optimize" /\ out.kind # "diverged") =>
       IF trace.exc = "none"
       THEN /\ out.kind = "returned"
            /\ last_solution = [is_none |-> FALSE, routes |-> out.routes]
       ELSE /\ out = [kind |-> "returned", routes |-> <<>>]
            /\ last_solution = LastSuccessful

(* A failing call after a successful one that returned a route. *)
C28_Witness ==
  /\ pc = "done"
  /\ input.engine = "optimize"
  /\ trace.exc # "none"
  /\ ~ memo.is_none
  /\ memo.out.routes # <<>>
  /\ last_solution.routes = memo.out.routes

ExtractRoutesReturned ==
  pc = "done" /\ input.engine = "_extract_routes" /\ out.kind = "returned"

(* C29: whenever _extract_routes returns, for any 0/1 arc values, every     *)
(* returned route starts with the depot 0 and has at least two stops, its   *)
(* consecutive stops are arcs of value > 0.5, and every non-depot location  *)
(* is in exactly one returned route, exactly once.                          *)
C29_ExtractRoutesInvariants ==
  ExtractRoutesReturned =>
    /\ \A r \in 1 .. Len(out.routes) :
         LET route == out.routes[r].route
         IN  /\ Len(route) >= 2
             /\ route[1] = 0
             /\ \A i \in 1 .. (Len(route) - 1) : 2 * input.x[<<route[i], route[i + 1]>>] > 1
    /\ \A j \in 1 .. (input.n_locations - 1) :
         /\ Cardinality({r \in 1 .. Len(out.routes) :
                           Occurrences(out.routes[r].route, j) >= 1}) = 1
         /\ \A r \in 1 .. Len(out.routes) : Occurrences(out.routes[r].route, j) <= 1

(* Two routes returned from values that are no solution of the formulation. *)
C29_Witness ==
  /\ ExtractRoutesReturned
  /\ input.n_locations = 3
  /\ Len(out.routes) = 2

(* C30: for positive holding_cost, stockout_cost and lead_time and a demand *)
(* standard deviation >= 0, optimize_inventory returns safety_stock >= 0,   *)
(* hence reorder_point >= mean * lead_time and expected holding cost >= 0.  *)
C30_SafetyStockNonNegative ==
  (/\ InventoryCallDone
   /\ input.holding_cost > 0 /\ input.stockout_cost > 0 /\ input.lead_time > 0
   /\ out.kind = "returned"
   /\ out.metrics.demand_std.k = "fin" /\ out.metrics.demand_std.v >= 0) =>
    /\ out.safety_stock.k = "fin" /\ out.safety_stock.v >= 0
    /\ out.reorder_point.k = "fin"
    /\ out.reorder_point.v
         >= FMul(out.metrics.demand_mean, Fin(input.lead_time * Scale)).v
    /\ out.metrics.expected_holding_cost.k = "fin"
    /\ out.metrics.expected_holding_cost.v >= 0

====
